---- MODULE Spec2Model ----
(***************************************************************************)
(* Memory servers of OneAgent: the HTTP / MCP wrappers around the vector   *)
(* store (ChromaDB collection, mem0 Memory).  One server script runs at a  *)
(* time (variable server); collection is the content of the store behind   *)
(* it; resp is the answer to the last request.                             *)
(***************************************************************************)
EXTENDS Integers, Sequences, FiniteSets, TLC

\* ---------------------------------------------------------------- bounds
MaxIds == 2
MaxMsgs == 2

\* ---------------------------------------------------------------- inputs
Users == {"alice", "bob"}
QueryUsers == Users \cup {"all"}
Contents == {"a", "b"}
Limits == {1, 10}
Libs == {"none", "embed", "store"}
Raises == {"none", "store"}

VARIABLES server, collection, next_id, resp, MEM0_API_KEY, project, migration

vars == <<server, collection, next_id, resp, MEM0_API_KEY, project, migration>>

\* ------------------------------------------------------- request values
\* A JSON object is a record of optional fields; has says the key is present.
Opt(has, val) == [has |-> has, val |-> val]

NoMetadata == [userId |-> Opt(FALSE, "")]

Metadatas == {NoMetadata, [userId |-> Opt(TRUE, "bob")]}

Messages == {[role |-> Opt(TRUE, "assistant"), content |-> Opt(TRUE, "a")],
             [role |-> Opt(TRUE, "assistant"), content |-> Opt(FALSE, "")]}

SeqsUpTo(S, n) == UNION {[1..k -> S] : k \in 0..n}

\* bodies of POST /memories: 'content' and/or 'messages', the user under
\* either key, and metadata that may itself carry a userId key
Bodies == {b \in [content : {Opt(FALSE, "")} \cup {Opt(TRUE, x) : x \in {"", "a"}},
                  messages : {Opt(FALSE, <<>>)} \cup {Opt(TRUE, x) : x \in SeqsUpTo(Messages, MaxMsgs)},
                  user_id : {Opt(FALSE, ""), Opt(TRUE, "alice")},
                  userId : {Opt(FALSE, ""), Opt(TRUE, "bob")},
                  metadata : Metadatas] :
             /\ b.metadata.userId.has => b.user_id.has /\ ~b.userId.has /\ ~b.messages.has
             /\ b.content.has /\ b.messages.has => Len(b.messages.val) = 1
             /\ ~b.content.has /\ b.messages.has => b.user_id.has # b.userId.has}

NoBody == [content |-> Opt(FALSE, ""), messages |-> Opt(FALSE, <<>>), user_id |-> Opt(FALSE, ""),
           userId |-> Opt(FALSE, ""), metadata |-> NoMetadata]

\* the two body shapes a client may use for an add: a non-empty 'content'
\* string, or no 'content' and a non-empty 'messages' list of {role, content}
BodyCase(b) ==
  IF b.content.has /\ b.content.val # "" THEN "content"
  ELSE IF /\ ~b.content.has /\ b.messages.has /\ b.messages.val # <<>>
          /\ \A i \in 1..Len(b.messages.val) :
                b.messages.val[i].role.has /\ b.messages.val[i].content.has
    THEN "messages"
  ELSE "other"

\* ------------------------------------------------------------ the store
NoHash == "None"

\* a stored memory: userId is the key the store filters on; owner is the
\* user_id the add was called with and supplied the content string the
\* client sent (both kept for the record's history, not read by the code)
Mem(id, userId, owner, document, hash, supplied) ==
  [id |-> id, userId |-> userId, owner |-> owner, document |-> document,
   contentHash |-> hash, supplied |-> supplied]

Item(r) == [id |-> r.id, content |-> r.document, userId |-> r.userId]

Items(s) == [i \in 1..Len(s) |-> Item(s[i])]

\* what the request asked for, kept with its answer
Input(user, id, body, case) ==
  [user |-> user, id |-> id, body |-> body, case |-> case, auth |-> "none"]

NoInput == Input("", 0, NoBody, "none")

NotReported == 0 - 1

NoCounts == [removed |-> NotReported, total |-> NotReported, remaining |-> NotReported]

\* what a raw-HTTP add request looked like (kept for the record)
NoRequest == [parsable |-> TRUE, content |-> "none", messages |-> "none"]

\* calls: the store operations the handler made, in order
Response(op, status, success, raised, items, in, calls) ==
  [op |-> op, status |-> status, success |-> success, raised |-> raised,
   items |-> items, in |-> in, calls |-> calls, counts |-> NoCounts,
   verified |-> "none", request |-> NoRequest]

Ids(s) == {s[i].id : i \in 1..Len(s)}

\* collection.get(where={"userId": u})
Where(s, u) == SelectSeq(s, LAMBDA r : r.userId = u)

\* collection.delete(ids=[id]): no error when the id is absent
Without(s, id) == SelectSeq(s, LAMBDA r : r.id # id)

\* collection.query(n_results=limit): the limit nearest records; which ones
\* they are is decided by the embedding (the ranking order is not kept here)
Nearest(s, limit) ==
  LET n == IF Len(s) < limit THEN Len(s) ELSE limit
  IN {SelectSeq(s, LAMBDA r : r.id \in I) : I \in {J \in SUBSET Ids(s) : Cardinality(J) = n}}

\* ------------------------------------------ servers/gemini_mem0_server_v2.py
RECURSIVE JoinLines(_)
JoinLines(parts) ==
  IF parts = <<>> THEN ""
  ELSE IF Len(parts) = 1 THEN parts[1]
  ELSE parts[1] \o "\n" \o JoinLines(Tail(parts))

RECURSIVE content_parts(_)
content_parts(messages) ==
  IF messages = <<>> THEN <<>>
  ELSE LET msg == Head(messages)
           role == IF msg.role.has THEN msg.role.val ELSE "user"
       IN (IF msg.content.has THEN <<role \o ": " \o msg.content.val>> ELSE <<>>)
            \o content_parts(Tail(messages))

BodyUser(body) ==
  IF body.user_id.has THEN body.user_id.val
  ELSE IF body.userId.has THEN body.userId.val ELSE "default"

\* the body's 'messages' taken before its 'content'
extract_messages_first(body) ==
  IF body.messages.has /\ body.messages.val # <<>>
    THEN [none |-> FALSE, content |-> JoinLines(content_parts(body.messages.val)),
          user_id |-> BodyUser(body), metadata |-> body.metadata]
  ELSE IF body.content.has
    THEN [none |-> FALSE, content |-> body.content.val, user_id |-> BodyUser(body),
          metadata |-> body.metadata]
  ELSE [none |-> TRUE, content |-> "", user_id |-> "", metadata |-> NoMetadata]

\* none: the (None, None, None) result
extract_content_from_request(body) ==
  IF body.content.has
    THEN [none |-> FALSE, content |-> body.content.val, user_id |-> BodyUser(body),
          metadata |-> body.metadata]
  ELSE IF body.messages.has
    THEN [none |-> FALSE,
          content |-> IF body.messages.val # <<>>
                        THEN JoinLines(content_parts(body.messages.val))
                        ELSE "[]",
          user_id |-> BodyUser(body), metadata |-> body.metadata]
  ELSE [none |-> TRUE, content |-> "", user_id |-> "", metadata |-> NoMetadata]

\* the bytes of a POST: a JSON object, or something json.loads rejects
RawBodies ==
  {[parsable |-> TRUE, body |-> b] : b \in Bodies} \cup {[parsable |-> FALSE, body |-> NoBody]}

\* _parse_request_body: {} when there is no body or it cannot be parsed
parse_request_body(raw) == IF raw.parsable THEN raw.body ELSE NoBody

request_shape(raw) ==
  [parsable |-> raw.parsable,
   content |-> IF ~raw.body.content.has THEN "absent"
               ELSE IF raw.body.content.val = "" THEN "empty" ELSE "text",
   messages |-> IF ~raw.body.messages.has THEN "absent"
                ELSE IF raw.body.messages.val = <<>> THEN "empty"
                ELSE IF JoinLines(content_parts(raw.body.messages.val)) = "" THEN "no text"
                ELSE "text"]

WithRequest(r, raw) == [r EXCEPT !.request = request_shape(raw)]

\* "if not content": None and the empty string
not_content(x) == x.none \/ x.content = ""

\* chroma_metadata = {"userId": user_id, "content": ..., **metadata}
chroma_metadata_userId(user_id, metadata) ==
  IF metadata.userId.has THEN metadata.userId.val ELSE user_id

GeminiMemorySystem_get_all_memories(s, user_id) ==
  IF user_id # "all" THEN Where(s, user_id) ELSE s

\* do_POST on /memories, /v1/memories, /v1/memories/ -> add_memory
MemoryRequestHandler_do_POST ==
  /\ server = "gemini_v2"
  /\ \E raw \in RawBodies :
       LET body == parse_request_body(raw)
           x == extract_content_from_request(body)
       IN IF not_content(x)
            THEN /\ resp' = WithRequest(Response("add", 400, "false", "none", <<>>,
                                                 Input("", 0, NoBody, BodyCase(body)), <<>>), raw)
                 /\ UNCHANGED <<collection, next_id>>
          ELSE \E lib \in Raises :
            IF lib # "none"
            THEN /\ resp' = WithRequest(Response("add", 500, "false", lib, <<>>, NoInput,
                                                 <<"add">>), raw)
                 /\ UNCHANGED <<collection, next_id>>
          ELSE /\ next_id <= MaxIds
               /\ collection' = Append(collection,
                                   Mem(next_id, chroma_metadata_userId(x.user_id, x.metadata),
                                       x.user_id, x.content, NoHash,
                                       IF body.content.has THEN body.content.val ELSE ""))
               /\ next_id' = next_id + 1
               /\ resp' = WithRequest(Response("add", 200, "true", "none",
                                   <<[id |-> next_id, content |-> x.content, userId |-> x.user_id]>>,
                                   Input("", next_id, body, BodyCase(body)), <<"add">>), raw)
  /\ UNCHANGED <<server, MEM0_API_KEY, project, migration>>

\* do_GET on /memories without query -> get_all_memories; a failure of the
\* collection is swallowed into [] by get_all_memories
MemoryRequestHandler_do_GET_all ==
  /\ server = "gemini_v2"
  /\ \E user_id \in QueryUsers, lib \in Raises :
       resp' = IF lib # "none" THEN Response("get_all", 200, "none", lib, <<>>, NoInput, <<"get">>)
               ELSE Response("get_all", 200, "none", "none",
                             Items(GeminiMemorySystem_get_all_memories(collection, user_id)),
                             Input(user_id, 0, NoBody, "none"), <<"get">>)
  /\ UNCHANGED <<server, collection, next_id, MEM0_API_KEY, project, migration>>

\* do_GET with query / do_POST on /memories/search -> search_memories
MemoryRequestHandler_do_GET_search ==
  /\ server = "gemini_v2"
  /\ \E user_id \in QueryUsers, limit \in Limits, lib \in Raises :
       \E found \in (IF lib # "none" THEN {<<>>}
                     ELSE Nearest(GeminiMemorySystem_get_all_memories(collection, user_id), limit)) :
         resp' = Response("search", 200, "none", lib, Items(found),
                          IF lib # "none" THEN NoInput ELSE Input(user_id, 0, NoBody, "none"),
                          <<"query">>)
  /\ UNCHANGED <<server, collection, next_id, MEM0_API_KEY, project, migration>>

\* do_DELETE on /memories/<id> -> delete_memory(memory_id): no user involved
MemoryRequestHandler_do_DELETE ==
  /\ server = "gemini_v2"
  /\ \E memory_id \in 1..MaxIds, lib \in Raises :
       IF lib # "none"
         THEN /\ resp' = Response("delete", 200, "false", lib, <<>>, Input("", memory_id, NoBody, "none"),
                               <<"delete">>)
              /\ UNCHANGED collection
         ELSE /\ resp' = Response("delete", 200, "true", "none", <<>>, Input("", memory_id, NoBody, "none"),
                               <<"delete">>)
              /\ collection' = Without(collection, memory_id)
  /\ UNCHANGED <<server, next_id, MEM0_API_KEY, project, migration>>

GeminiV2 ==
  \/ MemoryRequestHandler_do_POST
  \/ MemoryRequestHandler_do_GET_all
  \/ MemoryRequestHandler_do_GET_search
  \/ MemoryRequestHandler_do_DELETE

\* ------------------------------------------ servers/oneagent_memory_server.py
MCP_PROTOCOL_VERSION == "2025-06-18"

Versions == {MCP_PROTOCOL_VERSION, "2024-11-05"}

\* header values are sequences of characters
BearerPrefix == <<"B", "e", "a", "r", "e", "r", " ">>

NoKey == Opt(FALSE, <<>>)

TheKey == <<"k">>

Authorizations ==
  {Opt(FALSE, <<>>), Opt(TRUE, <<>>), Opt(TRUE, TheKey), Opt(TRUE, BearerPrefix),
   Opt(TRUE, BearerPrefix \o TheKey), Opt(TRUE, BearerPrefix \o <<"x">>),
   Opt(TRUE, BearerPrefix \o <<" ">> \o TheKey), Opt(TRUE, <<"b", "e", "a", "r", "e", "r", " ">> \o TheKey)}

StartsWith(h, p) == Len(h) >= Len(p) /\ SubSeq(h, 1, Len(p)) = p

\* h.split(" ", 1)[1], for h with a space in it
AfterFirstSpace(h) ==
  LET i == CHOOSE k \in 1..Len(h) : h[k] = " " /\ \A j \in 1..(k - 1) : h[j] # " "
  IN SubSeq(h, i + 1, Len(h))

\* a request is let through whenever the server has no key configured
require_mcp_headers_open(Authorization, mcp_protocol_version) ==
  IF MEM0_API_KEY.has /\ (~Authorization.has \/ ~StartsWith(Authorization.val, BearerPrefix)
                           \/ AfterFirstSpace(Authorization.val) # MEM0_API_KEY.val)
    THEN 401
  ELSE IF mcp_protocol_version # MCP_PROTOCOL_VERSION THEN 426
  ELSE 200

\* the status the dependency raises, 200 when it lets the request through
require_mcp_headers(Authorization, mcp_protocol_version) ==
  IF \/ ~Authorization.has \/ Authorization.val = <<>>
     \/ ~StartsWith(Authorization.val, BearerPrefix)
     \/ ~MEM0_API_KEY.has
     \/ AfterFirstSpace(Authorization.val) # MEM0_API_KEY.val
    THEN 401
  ELSE IF mcp_protocol_version # MCP_PROTOCOL_VERSION THEN 426
  ELSE 200

\* the MCP-Protocol-Version values to tell apart for a request: the header
\* is only looked at once Authorization has passed
VersionsWith(Authorization) ==
  IF require_mcp_headers(Authorization, MCP_PROTOCOL_VERSION) = 401
    THEN {MCP_PROTOCOL_VERSION} ELSE Versions

\* whether the request carries Authorization: Bearer <MEM0_API_KEY>
Carries(Authorization) ==
  IF MEM0_API_KEY.has /\ Authorization.has /\ Authorization.val = BearerPrefix \o MEM0_API_KEY.val
    THEN "bearer-key" ELSE "other"

OAInput(user, id, Authorization) ==
  [Input(user, id, NoBody, "none") EXCEPT !.auth = Carries(Authorization)]

\* hashlib.md5(content.encode()).hexdigest()
contentHash(content) == "md5-" \o content

\* request.metadata: absent, or a UnifiedMetadata whose system.userId is set
OAMetadatas == {Opt(FALSE, ""), Opt(TRUE, "bob")}

\* processed_metadata["userId"] = metadata.system.get("userId", user_id)
processed_metadata_userId(user_id, metadata) ==
  IF metadata.has THEN metadata.val ELSE user_id

\* POST /v1/memories -> create_memory -> _create_single_memory
\* (metadata.use_llm_processing left at its default, False)
OA_create_memory ==
  /\ server = "oneagent"
  /\ \E Authorization \in Authorizations : \E v \in VersionsWith(Authorization) :
       LET gate == require_mcp_headers(Authorization, v)
           no == OAInput("", 0, Authorization)
       IN IF gate # 200
            THEN /\ resp' = Response("add", gate, "false", "none", <<>>, no, <<>>)
                 /\ UNCHANGED <<collection, next_id>>
          ELSE \E content \in Contents \cup {""}, user_id \in Users, metadata \in OAMetadatas,
                  lib \in Libs :
                 IF content = ""
                   THEN /\ resp' = Response("add", 422, "false", "none", <<>>, no, <<>>)
                        /\ UNCHANGED <<collection, next_id>>
                 ELSE IF lib = "store"
                   THEN /\ resp' = Response("add", 500, "false", lib, <<>>, no, <<"add">>)
                        /\ UNCHANGED <<collection, next_id>>
                 ELSE /\ next_id <= MaxIds
                      /\ collection' = Append(collection,
                                          Mem(next_id, processed_metadata_userId(user_id, metadata),
                                              user_id, content, contentHash(content), content))
                      /\ next_id' = next_id + 1
                      /\ resp' = Response("add", 200, "true", lib,
                                          <<[id |-> next_id, content |-> content, userId |-> user_id]>>,
                                          OAInput(user_id, next_id, Authorization), <<"add">>)
  /\ UNCHANGED <<server, MEM0_API_KEY, project, migration>>

\* the loop of search_memories over the result of collection.get(): the flat
\* result is indexed as the nested one of collection.query(), which raises
\* as soon as the user has a memory
search_memories_get_loop(found) == IF found = <<>> THEN 200 ELSE 500

\* GET /v1/memories -> search_memories
OA_search_memories ==
  /\ server = "oneagent"
  /\ UNCHANGED <<collection, next_id>>
  /\ \E Authorization \in Authorizations : \E v \in VersionsWith(Authorization) :
       LET gate == require_mcp_headers(Authorization, v)
       IN IF gate # 200
            THEN resp' = Response("search", gate, "false", "none", <<>>,
                                  OAInput("", 0, Authorization), <<>>)
          ELSE \E userId \in Users, query \in {Opt(FALSE, "")} \cup {Opt(TRUE, c) : c \in Contents},
                  limit \in Limits, lib \in Libs :
                 LET in == OAInput(userId, 0, Authorization)
                     mine == Where(collection, userId)
                 IN IF lib = "store"
                      THEN resp' = Response(IF query.has THEN "search" ELSE "get_all", 500, "false",
                                            lib, <<>>, in, <<IF query.has THEN "query" ELSE "get">>)
                    ELSE IF query.has
                      THEN \E found \in Nearest(mine, limit) :
                             resp' = Response("search", 200, "true", lib,
                                       IF found # <<>> THEN Items(found)
                                       ELSE Items(SelectSeq(mine, LAMBDA r : r.document = query.val)),
                                       in, IF found # <<>> THEN <<"query">> ELSE <<"query", "get">>)
                    ELSE LET st == search_memories_get_loop(
                                     SubSeq(mine, 1, IF Len(mine) < limit THEN Len(mine) ELSE limit))
                         IN resp' = Response("get_all", st, IF st = 200 THEN "true" ELSE "false",
                                             "none", <<>>, in, <<"get">>)
  /\ UNCHANGED <<server, MEM0_API_KEY, project, migration>>

\* collection.update(ids=[id], documents=[document], metadatas=[... contentHash ...])
Replace(s, id, document) ==
  [i \in 1..Len(s) |-> IF s[i].id = id
                         THEN [s[i] EXCEPT !.document = document,
                                           !.contentHash = contentHash(document),
                                           !.supplied = document]
                         ELSE s[i]]

\* the lookup without its where={"userId": user_id}
Owned_by_anyone(s, id, user) == id \in Ids(s)

\* collection.get(ids=[id], where={"userId": user}) finds the record
Owned(s, id, user) == \E i \in 1..Len(s) : s[i].id = id /\ s[i].userId = user

\* PUT /v1/memories/{memory_id} -> _update_single_memory
OA_update_memory ==
  /\ server = "oneagent"
  /\ UNCHANGED next_id
  /\ \E Authorization \in Authorizations : \E v \in VersionsWith(Authorization) :
       LET gate == require_mcp_headers(Authorization, v)
       IN IF gate # 200
            THEN /\ resp' = Response("update", gate, "false", "none", <<>>,
                                     OAInput("", 0, Authorization), <<>>)
                 /\ UNCHANGED collection
          ELSE \E memory_id \in 1..MaxIds, content \in Contents, user_id \in Users, lib \in Libs :
                 LET in == OAInput(user_id, memory_id, Authorization)
                 IN IF lib = "store" \/ ~Owned(collection, memory_id, user_id)
                      THEN /\ resp' = Response("update", 500, "false", lib, <<>>, in, <<"get">>)
                           /\ UNCHANGED collection
                    ELSE /\ resp' = Response("update", 200, "true", lib, <<>>, in,
                                             <<"get", "update">>)
                         /\ collection' = Replace(collection, memory_id, content)
  /\ UNCHANGED <<server, MEM0_API_KEY, project, migration>>

\* the HTTPException(404) raised inside the try of delete_memory is caught by
\* its own except Exception and raised again as a 500
delete_memory_not_found == 500

\* DELETE /v1/memories/{memory_id}?userId= -> delete_memory
OA_delete_memory ==
  /\ server = "oneagent"
  /\ UNCHANGED next_id
  /\ \E Authorization \in Authorizations : \E v \in VersionsWith(Authorization) :
       LET gate == require_mcp_headers(Authorization, v)
       IN IF gate # 200
            THEN /\ resp' = Response("delete", gate, "false", "none", <<>>,
                                     OAInput("", 0, Authorization), <<>>)
                 /\ UNCHANGED collection
          ELSE \E memory_id \in 1..MaxIds, userId \in Users, lib \in Raises :
                 LET in == OAInput(userId, memory_id, Authorization)
                 IN IF lib = "store"
                      THEN /\ resp' = Response("delete", 500, "false", lib, <<>>, in, <<"get">>)
                           /\ UNCHANGED collection
                    ELSE IF ~Owned(collection, memory_id, userId)
                      THEN /\ resp' = Response("delete", delete_memory_not_found, "false", "none",
                                               <<>>, in, <<"get">>)
                           /\ UNCHANGED collection
                    ELSE /\ resp' = Response("delete", 200, "true", "none", <<>>, in,
                                             <<"get", "delete">>)
                         /\ collection' = Without(collection, memory_id)
  /\ UNCHANGED <<server, MEM0_API_KEY, project, migration>>

\* the ids deduplicate_memories deletes: every memory whose contentHash was
\* seen before it, the missing contentHash (None) being a hash like another
RECURSIVE duplicates(_, _)
duplicates(ms, seen_hashes) ==
  IF ms = <<>> THEN {}
  ELSE LET content_hash == Head(ms).contentHash
       IN IF content_hash \in seen_hashes
            THEN {Head(ms).id} \cup duplicates(Tail(ms), seen_hashes)
            ELSE duplicates(Tail(ms), seen_hashes \cup {content_hash})

\* POST /v1/memories/deduplicate?userId= -> deduplicate_memories
OA_deduplicate_user_memories ==
  /\ server = "oneagent"
  /\ UNCHANGED next_id
  /\ \E Authorization \in Authorizations : \E v \in VersionsWith(Authorization) :
       LET gate == require_mcp_headers(Authorization, v)
       IN IF gate # 200
            THEN /\ resp' = Response("dedup", gate, "false", "none", <<>>,
                                     OAInput("", 0, Authorization), <<>>)
                 /\ UNCHANGED collection
          ELSE \E userId \in Users, lib \in Raises :
                 LET in == OAInput(userId, 0, Authorization)
                     all_memories == Where(collection, userId)
                     dups == duplicates(all_memories, {})
                 IN IF lib = "store"
                      THEN /\ resp' = Response("dedup", 200, "true", lib, <<>>, in, <<"get">>)
                           /\ UNCHANGED collection
                    ELSE IF all_memories = <<>>
                      THEN /\ resp' = [Response("dedup", 200, "true", "none", <<>>, in, <<"get">>)
                                         EXCEPT !.counts = [removed |-> 0, total |-> 0,
                                                            remaining |-> NotReported]]
                           /\ UNCHANGED collection
                    ELSE /\ resp' = [Response("dedup", 200, "true", "none", <<>>, in,
                                              IF dups = {} THEN <<"get">> ELSE <<"get", "delete">>)
                                       EXCEPT !.counts =
                                         [removed |-> Cardinality(dups),
                                          total |-> Len(all_memories),
                                          remaining |-> Len(all_memories) - Cardinality(dups)]]
                         /\ collection' = SelectSeq(collection, LAMBDA r : r.id \notin dups)
  /\ UNCHANGED <<server, MEM0_API_KEY, project, migration>>

\* GET /v1/memories/stats?userId= -> get_memory_statistics
OA_get_memory_statistics ==
  /\ server = "oneagent"
  /\ \E Authorization \in Authorizations : \E v \in VersionsWith(Authorization) :
       LET gate == require_mcp_headers(Authorization, v)
       IN IF gate # 200
            THEN resp' = Response("stats", gate, "false", "none", <<>>,
                                  OAInput("", 0, Authorization), <<>>)
          ELSE \E userId \in Users, lib \in Raises :
                 resp' = [Response("stats", 200, "true", lib, <<>>,
                                   OAInput(userId, 0, Authorization), <<"get">>)
                            EXCEPT !.counts.total = IF lib = "store" THEN NotReported
                                                    ELSE Len(Where(collection, userId))]
  /\ UNCHANGED <<server, collection, next_id, MEM0_API_KEY, project, migration>>

\* POST /v1/memories/bulk -> create_memory for each request, failures kept
\* in the per-request results
OA_create_bulk_memories ==
  /\ server = "oneagent"
  /\ \E Authorization \in Authorizations : \E v \in VersionsWith(Authorization) :
       LET gate == require_mcp_headers(Authorization, v)
       IN IF gate # 200
            THEN /\ resp' = Response("bulk", gate, "false", "none", <<>>,
                                     OAInput("", 0, Authorization), <<>>)
                 /\ UNCHANGED <<collection, next_id>>
          ELSE \E user_id \in Users, contents \in SeqsUpTo(Contents, 2), lib \in Libs :
                 LET in == OAInput(user_id, next_id, Authorization)
                     n == Len(contents)
                 IN IF lib = "store" \/ n = 0
                      THEN /\ resp' = Response("bulk", 200, "true", IF n = 0 THEN "none" ELSE lib,
                                               <<>>, in, IF n = 0 THEN <<>> ELSE <<"add">>)
                           /\ UNCHANGED <<collection, next_id>>
                    ELSE /\ next_id + n - 1 <= MaxIds
                         /\ collection' = collection \o
                              [i \in 1..n |-> Mem(next_id + i - 1, user_id, user_id, contents[i],
                                                  contentHash(contents[i]), contents[i])]
                         /\ next_id' = next_id + n
                         /\ resp' = Response("bulk", 200, "true", lib,
                                             [i \in 1..n |-> [id |-> next_id + i - 1,
                                                              content |-> contents[i],
                                                              userId |-> user_id]],
                                             in, <<"add">>)
  /\ UNCHANGED <<server, MEM0_API_KEY, project, migration>>

OneAgent ==
  \/ OA_create_memory
  \/ OA_search_memories
  \/ OA_update_memory
  \/ OA_delete_memory
  \/ OA_deduplicate_user_memories
  \/ OA_get_memory_statistics
  \/ OA_create_bulk_memories

\* --------------------------------------------------- mem0 Memory (the store)
\* The store the mem0-based servers call, as the Memory class of
\* servers/mem0_memory_server_v2.py implements it.

\* query.lower() in content.lower(), for the texts used here
Contains(text, query) == query = "" \/ query = text

\* the message is stored with its role in front
Memory_add_with_role(s, id, content, user_id, supplied) ==
  Append(s, Mem(id, user_id, user_id, "user: " \o content, NoHash, supplied))

\* supplied: what the client sent for the memory (not stored)
Memory_add(s, id, content, user_id, supplied) ==
  Append(s, Mem(id, user_id, user_id, content, NoHash, supplied))

Memory_search(s, query, user_id, limit) ==
  LET results == SelectSeq(s, LAMBDA r : r.userId = user_id /\ Contains(r.document, query))
  IN SubSeq(results, 1, IF Len(results) < limit THEN Len(results) ELSE limit)

Memory_get_all(s, user_id) == Where(s, user_id)

Memory_delete(s, memory_id) == Without(s, memory_id)

\* memory.update(memory_id=, data=): the text of that memory is replaced
Memory_update(s, memory_id, data) ==
  [i \in 1..Len(s) |-> IF s[i].id = memory_id
                         THEN [s[i] EXCEPT !.document = data, !.supplied = data]
                         ELSE s[i]]

Bool(b) == IF b THEN "true" ELSE "false"

\* a tool's argument values
ToolInput(user_id, memory_id) == Input(user_id, memory_id, NoBody, "content")

\* ------------------------------------------ servers/mem0_fastmcp_server.py
\* Tools return a dict, there is no HTTP status: status is 200 throughout.
\* calls lists the calls to memory in order, each with its outcome; raised is
\* "none" when none raised, else "store" when the add/update/delete raised,
\* else "lookup" when the get_all before the change raised, else "verify".
Queries == Contents \cup {""}

Outcome(fn, raises, hit) ==
  fn \o (IF raises THEN ":raised" ELSE IF hit THEN ":found" ELSE ":absent")

Failed(lookup_raises, verify_raises) ==
  IF lookup_raises THEN "lookup" ELSE IF verify_raises THEN "verify" ELSE "none"

\* canonical_id = str(uuid.uuid4()): an id of the tool's own, which the store
\* (that draws its own id for the memory) has not given to any memory
canonical_id(n) == MaxIds + n

\* the memory ids a client can name: ids of the store and canonical ids
ToolIds == 1..(2 * MaxIds)

\* verification_passed on a completed add that returned memories: set when
\* the canonical id is among the search results, and set all the same
\* (len(memories) > 0) when it is not or when the search raised
verification_passed(search_raises, found, memories) ==
  IF search_raises THEN Len(memories) > 0
  ELSE found \/ Len(memories) > 0

\* the entries of result["results"]: an entry without "id" (has_id FALSE)
\* is given the canonical id, an entry with one keeps the id of the store
MCP_add_memory ==
  /\ server = "fastmcp"
  /\ \E content \in Contents, user_id \in Users, add_raises \in BOOLEAN :
       IF add_raises
         THEN /\ resp' = Response("add", 200, "false", "store", <<>>, NoInput, <<"add:raised">>)
              /\ UNCHANGED <<collection, next_id>>
       ELSE \E no_results \in BOOLEAN :
         IF no_results
           THEN /\ resp' = Response("add", 200, "false", "none", <<>>, NoInput, <<"add">>)
                /\ UNCHANGED <<collection, next_id>>
         ELSE \E has_id \in BOOLEAN, search_raises \in BOOLEAN :
           LET memories == <<[id |-> IF has_id THEN next_id ELSE canonical_id(next_id),
                              content |-> content, userId |-> user_id]>>
           IN /\ next_id <= MaxIds
              /\ collection' = Memory_add(collection, next_id, content, user_id, content)
              /\ next_id' = next_id + 1
              /\ LET found == canonical_id(next_id)
                                \in Ids(Memory_search(collection', content, user_id, 10))
                 IN resp' = [Response("add", 200, "true", Failed(FALSE, search_raises), memories,
                                      ToolInput(user_id, canonical_id(next_id)),
                                      <<"add", Outcome("search", search_raises, found)>>)
                               EXCEPT !.verified =
                                        Bool(verification_passed(search_raises, found, memories))]
  /\ UNCHANGED <<server, MEM0_API_KEY, project, migration>>

\* an empty query is answered from get_all, whose failure gives no results
MCP_search_memories ==
  /\ server = "fastmcp"
  /\ \E query \in Queries, user_id \in Users, limit \in Limits, raises \in BOOLEAN :
       resp' = IF query = ""
                 THEN Response("search", 200, "true", IF raises THEN "store" ELSE "none",
                               IF raises THEN <<>>
                               ELSE Items(LET memories == Memory_get_all(collection, user_id)
                                          IN SubSeq(memories, 1, IF Len(memories) < limit
                                                                   THEN Len(memories) ELSE limit)),
                               ToolInput(user_id, 0),
                               <<IF raises THEN "get_all:raised" ELSE "get_all">>)
               ELSE IF raises
                 THEN Response("search", 200, "false", "store", <<>>, ToolInput(user_id, 0),
                               <<"search:raised">>)
               ELSE Response("search", 200, "true", "none",
                             Items(Memory_search(collection, query, user_id, limit)),
                             ToolInput(user_id, 0), <<"search">>)
  /\ UNCHANGED <<server, collection, next_id, MEM0_API_KEY, project, migration>>

MCP_get_all_memories ==
  /\ server = "fastmcp"
  /\ \E user_id \in Users, raises \in BOOLEAN :
       resp' = IF raises
                 THEN Response("get_all", 200, "false", "store", <<>>, ToolInput(user_id, 0),
                               <<"get_all:raised">>)
               ELSE Response("get_all", 200, "true", "none",
                             Items(Memory_get_all(collection, user_id)),
                             ToolInput(user_id, 0), <<"get_all">>)
  /\ UNCHANGED <<server, collection, next_id, MEM0_API_KEY, project, migration>>

MCP_edit_memory ==
  /\ server = "fastmcp"
  /\ \E memory_id \in ToolIds, content \in Contents, user_id \in Users,
        lookup_raises \in BOOLEAN, update_raises \in BOOLEAN, search_raises \in BOOLEAN :
       LET in == ToolInput(user_id, memory_id)
           existing_memory == memory_id \in Ids(Memory_get_all(collection, user_id))
           lookup == Outcome("get_all", lookup_raises, existing_memory)
       IN IF ~lookup_raises /\ ~existing_memory
            THEN /\ resp' = Response("edit", 200, "false", "none", <<>>, in, <<lookup>>)
                 /\ UNCHANGED collection
          ELSE IF update_raises
            THEN /\ resp' = Response("edit", 200, "false", "store", <<>>, in,
                                     <<lookup, "update:raised">>)
                 /\ UNCHANGED collection
          ELSE LET after == Memory_update(collection, memory_id, content)
                   hit == memory_id \in Ids(Memory_search(after, content, user_id, 20))
                   updated_verified == ~search_raises /\ hit
               IN /\ collection' = after
                  /\ resp' = Response("edit", 200, Bool(updated_verified),
                                      Failed(lookup_raises, search_raises), <<>>, in,
                                      <<lookup, "update", Outcome("search", search_raises, hit)>>)
  /\ UNCHANGED <<server, next_id, MEM0_API_KEY, project, migration>>

MCP_delete_memory ==
  /\ server = "fastmcp"
  /\ \E memory_id \in ToolIds, user_id \in Users,
        lookup_raises \in BOOLEAN, delete_raises \in BOOLEAN, verify_raises \in BOOLEAN :
       LET in == ToolInput(user_id, memory_id)
           exists_before == lookup_raises \/ memory_id \in Ids(Memory_get_all(collection, user_id))
           lookup == Outcome("get_all", lookup_raises, exists_before)
       IN IF ~exists_before
            THEN /\ resp' = Response("delete", 200, "false", "none", <<>>, in, <<lookup>>)
                 /\ UNCHANGED collection
          ELSE IF delete_raises
            THEN /\ resp' = Response("delete", 200, "false", "store", <<>>, in,
                                     <<lookup, "delete:raised">>)
                 /\ UNCHANGED collection
          ELSE LET after == Memory_delete(collection, memory_id)
                   memory_still_exists == memory_id \in Ids(Memory_get_all(after, user_id))
                   deleted_verified == verify_raises \/ ~memory_still_exists
               IN /\ collection' = after
                  /\ resp' = Response("delete", 200, Bool(deleted_verified),
                                      Failed(lookup_raises, verify_raises), <<>>, in,
                                      <<lookup, "delete",
                                        Outcome("get_all", verify_raises, memory_still_exists)>>)
  /\ UNCHANGED <<server, next_id, MEM0_API_KEY, project, migration>>

FastMCP ==
  \/ MCP_add_memory
  \/ MCP_search_memories
  \/ MCP_get_all_memories
  \/ MCP_edit_memory
  \/ MCP_delete_memory

\* ------------------------------------------------------------ mem0_server.py
\* Mem0Server.search_memories / get_all_memories / delete_memory catch the
\* failure of the store and return [] / False; add_memory raises it again.
\* raised: the exception reaches the request handler.
Mem0Server_search_memories_raise(s, query, user_id, limit, lib) ==
  IF lib # "none" THEN [raised |-> TRUE, memories |-> <<>>]
  ELSE [raised |-> FALSE, memories |-> Memory_search(s, query, user_id, limit)]

Mem0Server_search_memories(s, query, user_id, limit, lib) ==
  IF lib # "none" THEN [raised |-> FALSE, memories |-> <<>>]
  ELSE [raised |-> FALSE, memories |-> Memory_search(s, query, user_id, limit)]

Mem0Server_get_all_memories(s, user_id, lib) ==
  IF lib # "none" THEN [raised |-> FALSE, memories |-> <<>>]
  ELSE [raised |-> FALSE, memories |-> Memory_get_all(s, user_id)]

Mem0Server_delete_memory(s, memory_id, lib) ==
  IF lib # "none" THEN [raised |-> FALSE, success |-> FALSE, memories |-> s]
  ELSE [raised |-> FALSE, success |-> TRUE, memories |-> Memory_delete(s, memory_id)]

\* the id of no stored memory: a uuid4() made up for the answer
FreshId == 0

\* the POST bodies sent to mem0_server: unparsable, without 'content', with
\* 'messages' only, and with each content string
Mem0RawBodies ==
  {[parsable |-> FALSE, body |-> NoBody],
   [parsable |-> TRUE, body |-> NoBody],
   [parsable |-> TRUE,
    body |-> [NoBody EXCEPT !.messages =
                Opt(TRUE, <<[role |-> Opt(TRUE, "assistant"), content |-> Opt(TRUE, "a")]>>)]]}
    \cup {[parsable |-> TRUE, body |-> [NoBody EXCEPT !.content = Opt(TRUE, c)]] : c \in Queries}

\* body.get('content', '')
body_get_content(body) == IF body.content.has THEN body.content.val ELSE ""

\* do_POST on /memories; result_is_list: memory.add returned a list whose
\* first entry has the id, otherwise the answer carries a fresh uuid
Mem0RequestHandler_do_POST ==
  /\ server = "mem0_server"
  /\ \E raw \in Mem0RawBodies, user_id \in Users, lib \in Raises, result_is_list \in BOOLEAN :
       LET content == body_get_content(parse_request_body(raw))
       IN
       IF not_content([none |-> FALSE, content |-> content])
         THEN /\ resp' = WithRequest(Response("add", 400, "false", "none", <<>>, NoInput, <<>>), raw)
              /\ UNCHANGED <<collection, next_id>>
       ELSE IF lib # "none"
         THEN /\ resp' = WithRequest(Response("add", 500, "false", lib, <<>>, NoInput, <<"add">>), raw)
              /\ UNCHANGED <<collection, next_id>>
       ELSE /\ next_id <= MaxIds
            /\ collection' = Memory_add(collection, next_id, content, user_id, content)
            /\ next_id' = next_id + 1
            /\ resp' = WithRequest(Response("add", 200, "true", "none",
                                <<[id |-> IF result_is_list THEN next_id ELSE FreshId,
                                   content |-> content, userId |-> user_id]>>,
                                ToolInput(user_id, next_id), <<"add">>), raw)
  /\ UNCHANGED <<server, MEM0_API_KEY, project, migration>>

\* do_GET on /memories with a query, do_POST on /memories/search
Mem0RequestHandler_search ==
  /\ server = "mem0_server"
  /\ \E query \in Contents, user_id \in Users, limit \in Limits, lib \in Raises :
       LET r == Mem0Server_search_memories(collection, query, user_id, limit, lib)
       IN resp' = IF r.raised
                    THEN Response("search", 500, "false", lib, <<>>, ToolInput(user_id, 0),
                                  <<"search">>)
                  ELSE Response("search", 200, "true", lib, Items(r.memories),
                                ToolInput(user_id, 0), <<"search">>)
  /\ UNCHANGED <<server, collection, next_id, MEM0_API_KEY, project, migration>>

\* do_GET on /memories without a query
Mem0RequestHandler_do_GET ==
  /\ server = "mem0_server"
  /\ \E user_id \in Users, lib \in Raises :
       LET r == Mem0Server_get_all_memories(collection, user_id, lib)
       IN resp' = IF r.raised
                    THEN Response("get_all", 500, "false", lib, <<>>, ToolInput(user_id, 0),
                                  <<"get_all">>)
                  ELSE Response("get_all", 200, "true", lib, Items(r.memories),
                                ToolInput(user_id, 0), <<"get_all">>)
  /\ UNCHANGED <<server, collection, next_id, MEM0_API_KEY, project, migration>>

\* do_DELETE on /memories/<id>: the request names no user
Mem0RequestHandler_do_DELETE ==
  /\ server = "mem0_server"
  /\ \E memory_id \in 1..MaxIds, lib \in Raises :
       LET r == Mem0Server_delete_memory(collection, memory_id, lib)
       IN /\ resp' = IF r.raised
                       THEN Response("delete", 500, "false", lib, <<>>, ToolInput("", memory_id),
                                     <<"delete">>)
                     ELSE Response("delete", 200, Bool(r.success), lib, <<>>,
                                   ToolInput("", memory_id), <<"delete">>)
          /\ collection' = r.memories
  /\ UNCHANGED <<server, next_id, MEM0_API_KEY, project, migration>>

Mem0HTTP ==
  \/ Mem0RequestHandler_do_POST
  \/ Mem0RequestHandler_search
  \/ Mem0RequestHandler_do_GET
  \/ Mem0RequestHandler_do_DELETE

\* ------------------------------------------ servers/mem0_memory_server_v2.py
\* Flask routes; OneAgentMem0Server catches every failure of the store and
\* returns {"success": False, "error": ...}, which the route sends with 200.
\* json = FALSE: request.get_json() gives no object, the route answers 500.
OneAgentMem0Server_create_memory ==
  /\ server = "mem0_v2"
  /\ \E json \in BOOLEAN, content \in Contents, user_id \in Users, lib \in Raises :
       IF ~json
         THEN /\ resp' = Response("add", 500, "false", "none", <<>>, NoInput, <<>>)
              /\ UNCHANGED <<collection, next_id>>
       ELSE IF lib # "none"
         THEN /\ resp' = Response("add", 200, "false", lib, <<>>, NoInput, <<"add">>)
              /\ UNCHANGED <<collection, next_id>>
       ELSE /\ next_id <= MaxIds
            /\ collection' = Memory_add(collection, next_id, content, user_id, content)
            /\ next_id' = next_id + 1
            /\ resp' = Response("add", 200, "true", "none",
                                <<[id |-> next_id, content |-> content, userId |-> user_id]>>,
                                ToolInput(user_id, next_id), <<"add">>)
  /\ UNCHANGED <<server, MEM0_API_KEY, project, migration>>

OneAgentMem0Server_search_memories ==
  /\ server = "mem0_v2"
  /\ \E query \in Queries, user_id \in Users, limit \in Limits, lib \in Raises :
       resp' = IF lib # "none"
                 THEN Response("search", 200, "false", lib, <<>>, ToolInput(user_id, 0),
                               <<"search">>)
               ELSE Response("search", 200, "true", "none",
                             Items(Memory_search(collection, query, user_id, limit)),
                             ToolInput(user_id, 0), <<"search">>)
  /\ UNCHANGED <<server, collection, next_id, MEM0_API_KEY, project, migration>>

OneAgentMem0Server_get_user_memories ==
  /\ server = "mem0_v2"
  /\ \E user_id \in Users, lib \in Raises :
       resp' = IF lib # "none"
                 THEN Response("get_all", 200, "false", lib, <<>>, ToolInput(user_id, 0),
                               <<"get_all">>)
               ELSE Response("get_all", 200, "true", "none",
                             Items(Memory_get_all(collection, user_id)),
                             ToolInput(user_id, 0), <<"get_all">>)
  /\ UNCHANGED <<server, collection, next_id, MEM0_API_KEY, project, migration>>

\* delete_memory(memory_id, user_id): user_id only goes into the answer
OneAgentMem0Server_delete_memory ==
  /\ server = "mem0_v2"
  /\ \E memory_id \in 1..MaxIds, user_id \in Users, lib \in Raises :
       IF lib # "none"
         THEN /\ resp' = Response("delete", 200, "false", lib, <<>>,
                                  ToolInput(user_id, memory_id), <<"delete">>)
              /\ UNCHANGED collection
       ELSE /\ resp' = Response("delete", 200, "true", "none", <<>>,
                                ToolInput(user_id, memory_id), <<"delete">>)
            /\ collection' = Memory_delete(collection, memory_id)
  /\ UNCHANGED <<server, next_id, MEM0_API_KEY, project, migration>>

Mem0V2 ==
  \/ OneAgentMem0Server_create_memory
  \/ OneAgentMem0Server_search_memories
  \/ OneAgentMem0Server_get_user_memories
  \/ OneAgentMem0Server_delete_memory

\* --------------------------------------------- servers/mem0_gemini_server.py
\* what model.generate_content(...).text.strip() can be for a content: the
\* content itself or a text of Gemini's own
GeminiTexts(content) == {content, "memo"}

\* lib = "gemini": generate_content raised, nothing is stored
OneAgentMem0GeminiServer_create_memory ==
  /\ server = "mem0_gemini"
  /\ \E content \in Contents, user_id \in Users, lib \in Raises \cup {"gemini"} :
       IF lib # "none"
         THEN /\ resp' = Response("add", 200, "false", lib, <<>>, NoInput,
                                  IF lib = "gemini" THEN <<>> ELSE <<"add">>)
              /\ UNCHANGED <<collection, next_id>>
       ELSE \E enhanced_content \in GeminiTexts(content) :
              /\ next_id <= MaxIds
              /\ collection' = Memory_add(collection, next_id, enhanced_content, user_id, content)
              /\ next_id' = next_id + 1
              /\ resp' = Response("add", 200, "true", "none",
                                  <<[id |-> next_id, content |-> enhanced_content,
                                     userId |-> user_id]>>,
                                  ToolInput(user_id, next_id), <<"add">>)
  /\ UNCHANGED <<server, MEM0_API_KEY, project, migration>>

OneAgentMem0GeminiServer_search_memories ==
  /\ server = "mem0_gemini"
  /\ \E query \in Queries, user_id \in Users, limit \in Limits, lib \in Raises :
       resp' = IF lib # "none"
                 THEN Response("search", 200, "false", lib, <<>>, ToolInput(user_id, 0),
                               <<"search">>)
               ELSE Response("search", 200, "true", "none",
                             Items(Memory_search(collection, query, user_id, limit)),
                             ToolInput(user_id, 0), <<"search">>)
  /\ UNCHANGED <<server, collection, next_id, MEM0_API_KEY, project, migration>>

OneAgentMem0GeminiServer_get_user_memories ==
  /\ server = "mem0_gemini"
  /\ \E user_id \in Users, lib \in Raises :
       resp' = IF lib # "none"
                 THEN Response("get_all", 200, "false", lib, <<>>, ToolInput(user_id, 0),
                               <<"get_all">>)
               ELSE Response("get_all", 200, "true", "none",
                             Items(Memory_get_all(collection, user_id)),
                             ToolInput(user_id, 0), <<"get_all">>)
  /\ UNCHANGED <<server, collection, next_id, MEM0_API_KEY, project, migration>>

OneAgentMem0GeminiServer_delete_memory ==
  /\ server = "mem0_gemini"
  /\ \E memory_id \in 1..MaxIds, user_id \in Users, lib \in Raises :
       IF lib # "none"
         THEN /\ resp' = Response("delete", 200, "false", lib, <<>>,
                                  ToolInput(user_id, memory_id), <<"delete">>)
              /\ UNCHANGED collection
       ELSE /\ resp' = Response("delete", 200, "true", "none", <<>>,
                                ToolInput(user_id, memory_id), <<"delete">>)
            /\ collection' = Memory_delete(collection, memory_id)
  /\ UNCHANGED <<server, next_id, MEM0_API_KEY, project, migration>>

Mem0Gemini ==
  \/ OneAgentMem0GeminiServer_create_memory
  \/ OneAgentMem0GeminiServer_search_memories
  \/ OneAgentMem0GeminiServer_get_user_memories
  \/ OneAgentMem0GeminiServer_delete_memory

\* ---------------------------------------------------- migration scripts
\* migrate_memory_system.py (class MemorySystemMigration) and
\* memory_migration_fixed.py (class MemoryMigration).  The project directory is
\* a function from paths to contents; a directory is one path whose content
\* stands for everything below it.  In migrate_memory_system.py the line
\* "def create_backup" is indented deeper than the class body, so the
\* interpreter rejects the file; its methods are modelled as the class body
\* reads them.
Absent == "absent"

Scripts == {"migrate_memory_system", "memory_migration_fixed"}

project_memory_dir == "oneagent_gemini_memory"

servers_memory_dir == "servers/oneagent_gemini_memory"

memory_dirs(script) ==
  IF script = "migrate_memory_system"
    THEN <<project_memory_dir, servers_memory_dir>>
    ELSE <<project_memory_dir>>

new_memory_dir == "oneagent_memory"

env_file == "servers/.env"

startup_script == "start_memory_server.py"

config_files == <<"gemini_memory_config.json", "oneagent_gemini_config.json">>

\* a configuration file with and without embeddings.api_key
ConfigContents == {"embeddings.api_key=k", "no api_key"}

\* two of the listed redundant files, in the order each script lists them
RedundantFiles(script) ==
  IF script = "migrate_memory_system"
    THEN <<"scripts/start_mem0_server.py", "servers/mem0_server.py">>
    ELSE <<"servers/mem0_server.py", "scripts/start_mem0_server.py">>

Elements(s) == {s[i] : i \in 1..Len(s)}

\* Path.name: the last component of a path
name(path) ==
  CASE path = servers_memory_dir -> "oneagent_gemini_memory"
    [] path = "scripts/start_mem0_server.py" -> "start_mem0_server.py"
    [] path = "servers/mem0_server.py" -> "mem0_server.py"
    [] OTHER -> path

\* self.backup_dir, a directory named after the second the run started in
backup_dir == "backup/memory_migration_now"

\* self.backup_dir / path.name
InBackup(path) == backup_dir \o "/" \o name(path)

removed_dir(script) ==
  IF script = "migrate_memory_system" THEN "redundant_files" ELSE "removed_files"

\* backup_file = self.backup_dir / "redundant_files" / file_path.name
backup_file(script, file_path) ==
  backup_dir \o "/" \o removed_dir(script) \o "/" \o name(file_path)

AllRedundantFiles == UNION {Elements(RedundantFiles(s)) : s \in Scripts}

ProjectPaths ==
  {project_memory_dir, servers_memory_dir, new_memory_dir, env_file, startup_script}
    \cup Elements(config_files) \cup AllRedundantFiles

BackupPaths ==
  {InBackup(p) : p \in {project_memory_dir, servers_memory_dir} \cup Elements(config_files)}
    \cup {backup_file(s, f) : s \in Scripts, f \in AllRedundantFiles}

Paths == ProjectPaths \cup BackupPaths

EmptyProject == [p \in Paths |-> Absent]

\* the loops of create_backup: every listed path that exists is copied to
\* backup_dir / path.name, replacing what is already there
RECURSIVE backup_each(_, _, _)
backup_each(fs, paths, i) ==
  IF i > Len(paths) THEN fs
  ELSE backup_each(IF fs[paths[i]] # Absent
                     THEN [fs EXCEPT ![InBackup(paths[i])] = fs[paths[i]]]
                     ELSE fs,
                   paths, i + 1)

create_backup(script, fs) ==
  backup_each(backup_each(fs, memory_dirs(script), 1), config_files, 1)

migrate_memory_data(fs) ==
  IF fs[project_memory_dir] # Absent /\ fs[new_memory_dir] = Absent
    THEN [fs EXCEPT ![new_memory_dir] = fs[project_memory_dir]]
    ELSE fs

has_api_key(content) == content = "embeddings.api_key=k"

\* update_configurations takes the key of the first configuration file that
\* has one; create_env_config reads gemini_memory_config.json only
api_key(script, fs) ==
  LET read == IF script = "migrate_memory_system"
                THEN config_files ELSE <<config_files[1]>>
  IN IF \E i \in 1..Len(read) : has_api_key(fs[read[i]])
       THEN "k" ELSE "your_gemini_api_key_here"

env_content(script, fs) ==
  "GEMINI_API_KEY=" \o api_key(script, fs) \o " MEMORY_STORAGE_PATH=../"
    \o (IF script = "migrate_memory_system" THEN new_memory_dir ELSE project_memory_dir)

script_content == "subprocess.run oneagent_memory_server.py"

identify_redundant_files(script, fs) ==
  SelectSeq(RedundantFiles(script), LAMBDA f : fs[f] # Absent)

\* the body of the removal loop whose unlink runs whatever the copy did
cleanup_file_unlink_always(fs, script, file_path, copy_fails, unlink_fails) ==
  [fs EXCEPT ![backup_file(script, file_path)] =
               IF copy_fails THEN @ ELSE fs[file_path],
             ![file_path] = IF unlink_fails THEN @ ELSE Absent]

\* the body of the removal loop: copy2 to the backup, then unlink; an
\* exception of either call is caught and ends this file's iteration
cleanup_file(fs, script, file_path, copy_fails, unlink_fails) ==
  IF copy_fails THEN fs
  ELSE [fs EXCEPT ![backup_file(script, file_path)] = fs[file_path],
                  ![file_path] = IF unlink_fails THEN @ ELSE Absent]

NoMigration ==
  [script |-> "none", dry_run |-> TRUE, pc |-> "none", redundant_files |-> <<>>,
   before |-> EmptyProject, backed_up |-> FALSE, copy_failed |-> {}, attempted |-> {}]

ServerVars == <<server, collection, next_id, resp, MEM0_API_KEY>>

\* step 1 of both run_migration methods; an exception ends the run
run_migration_create_backup ==
  /\ migration.pc = "create_backup"
  /\ \E raises \in BOOLEAN :
       IF raises
         THEN /\ migration' = [migration EXCEPT !.pc = "failed"]
              /\ UNCHANGED project
         ELSE /\ project' = create_backup(migration.script, project)
              /\ migration' = [migration EXCEPT
                   !.backed_up = TRUE,
                   !.pc = IF migration.script = "migrate_memory_system"
                            THEN "migrate_memory_data"
                            ELSE "identify_redundant_files"]
  /\ UNCHANGED ServerVars

MemorySystemMigration_migrate_memory_data ==
  /\ migration.pc = "migrate_memory_data"
  /\ project' = migrate_memory_data(project)
  /\ migration' = [migration EXCEPT !.pc = "update_configurations"]
  /\ UNCHANGED ServerVars

MemorySystemMigration_update_configurations ==
  /\ migration.pc = "update_configurations"
  /\ project' = [project EXCEPT ![env_file] = env_content(migration.script, project)]
  /\ migration' = [migration EXCEPT !.pc = "create_startup_script"]
  /\ UNCHANGED ServerVars

MemorySystemMigration_create_startup_script ==
  /\ migration.pc = "create_startup_script"
  /\ project' = [project EXCEPT ![startup_script] = script_content]
  /\ migration' = [migration EXCEPT !.pc = "cleanup_redundant_files"]
  /\ UNCHANGED ServerVars

\* cleanup_redundant_files up to its loop: a dry run only logs the files
MemorySystemMigration_cleanup_redundant_files ==
  /\ migration.pc = "cleanup_redundant_files"
  /\ migration' = [migration EXCEPT
       !.redundant_files = identify_redundant_files(migration.script, project),
       !.pc = IF migration.dry_run THEN "done" ELSE "cleanup_loop"]
  /\ UNCHANGED project
  /\ UNCHANGED ServerVars

MemoryMigration_identify_redundant_files ==
  /\ migration.pc = "identify_redundant_files"
  /\ migration' = [migration EXCEPT
       !.redundant_files = identify_redundant_files(migration.script, project),
       !.pc = "create_env_config"]
  /\ UNCHANGED project
  /\ UNCHANGED ServerVars

MemoryMigration_create_env_config ==
  /\ migration.pc = "create_env_config"
  /\ project' = [project EXCEPT ![env_file] = env_content(migration.script, project)]
  /\ migration' = [migration EXCEPT !.pc = "cleanup_files"]
  /\ UNCHANGED ServerVars

\* cleanup_files up to its loop
MemoryMigration_cleanup_files ==
  /\ migration.pc = "cleanup_files"
  /\ migration' = [migration EXCEPT
       !.pc = IF migration.dry_run THEN "done" ELSE "cleanup_loop"]
  /\ UNCHANGED project
  /\ UNCHANGED ServerVars

\* one iteration of the removal loop of cleanup_redundant_files / cleanup_files
cleanup_loop ==
  /\ migration.pc = "cleanup_loop"
  /\ migration.redundant_files # <<>>
  /\ LET file_path == Head(migration.redundant_files)
     IN \E copy_fails \in BOOLEAN, unlink_fails \in BOOLEAN :
          /\ project' = cleanup_file(project, migration.script, file_path,
                                     copy_fails, unlink_fails)
          /\ migration' = [migration EXCEPT
               !.redundant_files = Tail(@),
               !.attempted = @ \cup {file_path},
               !.copy_failed = IF copy_fails THEN @ \cup {file_path} ELSE @]
  /\ UNCHANGED ServerVars

\* the loop is over: run_migration logs success and returns
cleanup_done ==
  /\ migration.pc = "cleanup_loop"
  /\ migration.redundant_files = <<>>
  /\ migration' = [migration EXCEPT !.pc = "done"]
  /\ UNCHANGED project
  /\ UNCHANGED ServerVars

Migration ==
  \/ run_migration_create_backup
  \/ MemorySystemMigration_migrate_memory_data
  \/ MemorySystemMigration_update_configurations
  \/ MemorySystemMigration_create_startup_script
  \/ MemorySystemMigration_cleanup_redundant_files
  \/ MemoryMigration_identify_redundant_files
  \/ MemoryMigration_create_env_config
  \/ MemoryMigration_cleanup_files
  \/ cleanup_loop
  \/ cleanup_done

\* the project directories a migration can start in
Projects ==
  {[p \in Paths |-> IF p \in existing THEN p
                    ELSE IF p \in DOMAIN configs THEN configs[p]
                    ELSE Absent] :
     existing \in SUBSET (ProjectPaths \ Elements(config_files)),
     configs \in [Elements(config_files) -> {Absent} \cup ConfigContents]}

\* main: --execute clears dry_run
InitMigration ==
  /\ server = "none"
  /\ resp = Response("none", 0, "none", "none", <<>>, NoInput, <<>>)
  /\ MEM0_API_KEY = NoKey
  /\ collection = <<>>
  /\ next_id = 1
  /\ project \in Projects
  /\ \E script \in Scripts, execute \in BOOLEAN :
       migration = [NoMigration EXCEPT
         !.script = script, !.dry_run = ~execute,
         !.pc = "create_backup", !.before = project]

SpecMigration == InitMigration /\ [][Migration]_vars

\* memories written by the Gemini server v2 and copied into the new storage
\* directory by migrate_memory_data: they carry no contentHash
LegacyStores ==
  {[i \in 1..Len(t) |-> Mem(i, "alice", "alice", t[i], NoHash, t[i])] :
     t \in SeqsUpTo(Contents, MaxIds)}

Servers == {"gemini_v2", "oneagent", "fastmcp", "mem0_server", "mem0_v2", "mem0_gemini"}

Init ==
  /\ server \in Servers
  /\ resp = Response("none", 0, "none", "none", <<>>, NoInput, <<>>)
  /\ IF server = "oneagent"
       THEN /\ MEM0_API_KEY \in {NoKey, Opt(TRUE, TheKey)}
            /\ collection \in LegacyStores
            /\ next_id = Len(collection) + 1
       ELSE /\ MEM0_API_KEY = NoKey
            /\ collection = <<>>
            /\ next_id = 1
  /\ project = EmptyProject
  /\ migration = NoMigration

Next ==
  \/ GeminiV2
  \/ OneAgent
  \/ FastMCP
  \/ Mem0HTTP
  \/ Mem0V2
  \/ Mem0Gemini

Spec == Init /\ [][Next]_vars

\* the Gemini memory server v2 alone
InitG2 == Init /\ server = "gemini_v2"

SpecG2 == InitG2 /\ [][GeminiV2]_vars

\* the OneAgent memory server alone
InitOA == Init /\ server = "oneagent"

SpecOA == InitOA /\ [][OneAgent]_vars

\* the FastMCP memory server alone
InitMCP == Init /\ server = "fastmcp"

SpecMCP == InitMCP /\ [][FastMCP]_vars

\* -------------------------------------------------------------- properties
RespIds == {resp.items[i].id : i \in 1..Len(resp.items)}

\* C1: in the Gemini server v2, get_all_memories(u) returns exactly the
\* memories added with user_id u and not deleted since, each once, whatever
\* metadata came with the add (stated for the ordinary user ids; 'all' is
\* the server's own wildcard).
C1_GetAllReturnsOwnMemories ==
  (server = "gemini_v2" /\ resp.op = "get_all" /\ resp.raised = "none"
     /\ resp.in.user \in Users) =>
     /\ RespIds = {collection[i].id : i \in {j \in 1..Len(collection) :
                                               collection[j].owner = resp.in.user}}
     /\ Len(resp.items) = Cardinality(RespIds)

\* the users a body names: under 'user_id', under 'userId', else 'default'
BodyUsers(b) ==
  IF b.user_id.has \/ b.userId.has
    THEN {b.user_id.val : x \in {1} \cap {IF b.user_id.has THEN 1 ELSE 0}}
           \cup {b.userId.val : x \in {1} \cap {IF b.userId.has THEN 1 ELSE 0}}
    ELSE {"default"}

\* C5: in the Gemini server v2 a POST to the add endpoint with a non-empty
\* 'content', or with a non-empty 'messages' list of {role, content}
\* entries, is answered 200 and adds exactly one memory, for the user the
\* body names under user_id or userId (else 'default'); when 'content' is
\* present it is the text stored, also next to 'messages'.
C5_PostAddsOneMemory ==
  [][(server = "gemini_v2" /\ resp' # resp /\ resp'.op = "add" /\ resp'.raised = "none"
        /\ resp'.in.case # "other")
       => /\ resp'.status = 200
          /\ Len(collection') = Len(collection) + 1
          /\ SubSeq(collection', 1, Len(collection)) = collection
          /\ LET m == collection'[Len(collection')]
                 b == resp'.in.body
             IN /\ m.owner \in BodyUsers(b)
                /\ resp'.items = <<[id |-> m.id, content |-> m.document, userId |-> m.owner]>>
                /\ b.content.has => m.document = b.content.val]_vars

C5_Witness ==
  /\ server = "gemini_v2" /\ resp.op = "add" /\ resp.status = 200
  /\ resp.in.body.content.has /\ resp.in.body.messages.has
  /\ resp.in.body.userId.has /\ ~resp.in.body.user_id.has
  /\ Len(collection) = 2

C7_DeleteOfForeignMemoryIs404 ==
  [][(server = "oneagent" /\ resp' # resp /\ resp'.op = "delete" /\ resp'.calls # <<>>
        /\ resp'.raised = "none" /\ ~Owned(collection, resp'.in.id, resp'.in.user))
       => (resp'.status = 404 /\ collection' = collection)]_vars

Records(s) == {s[i] : i \in 1..Len(s)}

\* C8: deduplicate_memories(u) deletes a memory of u only if it keeps a
\* memory of u with the same content, keeps the first memory of every group
\* of equal content, deletes nothing of another user and reports
\* removed + remaining = total; also for memories without a contentHash.
C8_DedupRemovesOnlyDuplicates ==
  [][(server = "oneagent" /\ resp' # resp /\ resp'.op = "dedup" /\ resp'.calls # <<>>
        /\ resp'.raised = "none")
       => LET u == resp'.in.user
              gone == Records(collection) \ Records(collection')
          IN /\ Records(collection') \subseteq Records(collection)
             /\ \A r \in gone :
                   /\ r.userId = u
                   /\ \E k \in Records(collection') : k.userId = u /\ k.document = r.document
             /\ \A i \in 1..Len(collection) :
                   (/\ collection[i].userId = u
                    /\ \A j \in 1..(i - 1) :
                          ~(collection[j].userId = u
                              /\ collection[j].document = collection[i].document))
                     => collection[i] \in Records(collection')
             /\ resp'.counts.remaining # NotReported =>
                   /\ resp'.counts.removed + resp'.counts.remaining = resp'.counts.total
                   /\ resp'.counts.total = Len(Where(collection, u))
                   /\ resp'.counts.removed = Cardinality(gone)]_vars

StoredUnder(s, id, user) == \E i \in 1..Len(s) : s[i].id = id /\ s[i].userId = user

\* C3 (as stated): in every variant that offers delete, a delete naming the
\* id of an existing memory removes it whichever user accompanies the
\* request (no call to the store failing).
C3_DeleteIgnoresUser ==
  [][(resp' # resp /\ resp'.op = "delete" /\ resp'.raised = "none"
        /\ resp'.in.id \in Ids(collection))
       => collection' = Without(collection, resp'.in.id)]_vars

\* C3 (amended): the OneAgent memory server and the FastMCP server delete
\* only a memory stored under the user of the request (FastMCP also when
\* its lookup get_all raised); the Gemini server v2, mem0_server and the two
\* Flask servers delete the memory whichever user is given.  No other
\* memory is touched.
C3_DeleteOwnershipByVariant ==
  [][(resp' # resp /\ resp'.op = "delete" /\ resp'.raised \in {"none", "lookup", "verify"}
        /\ resp'.in.id \in Ids(collection))
       => LET mine == StoredUnder(collection, resp'.in.id, resp'.in.user)
              removes == IF server = "oneagent" THEN mine
                         ELSE IF server = "fastmcp" THEN mine \/ resp'.raised = "lookup"
                         ELSE TRUE
          IN /\ collection' = IF removes THEN Without(collection, resp'.in.id) ELSE collection
             /\ resp'.success = "true" <=> removes]_vars

C3_Witness ==
  /\ server = "oneagent" /\ resp.op = "delete" /\ resp.raised = "none"
  /\ resp.in.auth = "bearer-key" /\ resp.success = "false"
  /\ resp.in.id \in Ids(collection)
  /\ ~StoredUnder(collection, resp.in.id, resp.in.user)

\* the servers that answer over HTTP with a status code
HTTPServers == Servers \ {"fastmcp"}

Reraised(srv, op, raised) ==
  \/ srv \in {"gemini_v2", "mem0_server"} /\ op = "add"
  \/ srv = "oneagent" /\ raised = "store"

Returned(P(_, _)) ==
  resp.op \in {"search", "get_all"} =>
    \A i \in 1..Len(resp.items) :
      \E j \in 1..Len(collection) :
        collection[j].id = resp.items[i].id /\ P(resp.items[i], collection[j])

C9_SuccessOnlyWhenVerified ==
  (server = "fastmcp" /\ resp.op \in {"edit", "delete"} /\ resp.success = "true")
    => /\ resp.calls # <<>>
       /\ resp.calls[Len(resp.calls)] =
            IF resp.op = "edit" THEN "search:found" ELSE "get_all:absent"

\* C10: the FastMCP tools edit_memory and delete_memory call the store's
\* update or delete only after get_all(user_id) of the same call returned
\* memory_id; when it is not found or the lookup failed, neither is called.
C10_MutationOnlyAfterLookupFound ==
  (server = "fastmcp" /\ resp.op \in {"edit", "delete"}
     /\ \E i \in 1..Len(resp.calls) :
          resp.calls[i] \in {"update", "update:raised", "delete", "delete:raised"})
    => resp.calls[1] = "get_all:found"

\* C11: the FastMCP tool add_memory answers verified=true only when the
\* search it ran right after the add returned a memory whose id is the
\* canonical id it reports as memory_id; not when that id is missing from
\* the results or the search failed.
C11_VerifiedOnlyWhenSearchFoundId ==
  (server = "fastmcp" /\ resp.op = "add" /\ resp.verified = "true")
    => /\ resp.calls # <<>>
       /\ resp.calls[Len(resp.calls)] = "search:found"

\* C12: on a successful add of the FastMCP tool every entry of 'memories'
\* has the id returned as memory_id, and that id is the one under which
\* the lookup of edit_memory and delete_memory (get_all for the same user)
\* finds the memory.
C12_CanonicalIdNamesTheMemory ==
  (server = "fastmcp" /\ resp.op = "add" /\ resp.success = "true")
    => /\ \A i \in 1..Len(resp.items) : resp.items[i].id = resp.in.id
       /\ resp.in.id \in Ids(Where(collection, resp.in.user))

\* C13: a migration run without --execute applies no changes to the project:
\* every path outside the run's backup directory (the redundant files,
\* servers/.env, start_memory_server.py, oneagent_memory) keeps the content
\* it had when the run started.
C13_DryRunChangesNothing ==
  (migration.script \in Scripts /\ migration.dry_run)
    => \A p \in ProjectPaths : project[p] = migration.before[p]

\* C14: after create_backup of migrate_memory_system, every memory data
\* directory that existed has a copy of its contents in the backup directory,
\* also when both directories exist.
C14_BackupHoldsEveryMemoryDir ==
  (migration.script = "migrate_memory_system" /\ migration.backed_up)
    => \A i \in 1..Len(memory_dirs(migration.script)) :
         LET d == memory_dirs(migration.script)[i]
         IN migration.before[d] # Absent
              => \E b \in BackupPaths : project[b] = migration.before[d]

\* the redundant files the run found when it started
Found == {f \in Elements(RedundantFiles(migration.script)) : migration.before[f] # Absent}

\* C15: in execute mode a redundant file is gone only when its copy is in the
\* run's backup directory and create_backup has run; a file whose copy failed
\* is left in place, and the run still goes through every file it found.
C15_BackupBeforeDelete ==
  (migration.script \in Scripts /\ ~migration.dry_run)
    => /\ \A f \in Found :
            /\ project[f] = Absent
                 => /\ project[backup_file(migration.script, f)] = migration.before[f]
                    /\ migration.backed_up
            /\ f \in migration.copy_failed => project[f] = migration.before[f]
       /\ migration.pc = "done" => migration.attempted = Found

\* an executed run that removed one file and kept another whose copy failed
C15_Witness ==
  /\ migration.script \in Scripts
  /\ ~migration.dry_run
  /\ migration.pc = "done"
  /\ \E f \in Found : project[f] = Absent
  /\ \E f \in Found : f \in migration.copy_failed /\ project[f] # Absent

RawHTTPServers == {"gemini_v2", "mem0_server"}

\* C16: in the raw-HTTP servers a POST to the add endpoint whose body is not
\* parsable JSON, has empty content, or has no content (none under 'content'
\* and, where the server reads 'messages', no message text either) is
\* answered 400 without a call to add_memory and leaves the store unchanged.
C16_NoContentIs400 ==
  [][(server \in RawHTTPServers /\ resp'.op = "add"
        /\ \/ ~resp'.request.parsable
           \/ resp'.request.content = "empty"
           \/ /\ resp'.request.content = "absent"
              /\ \/ server = "mem0_server"
                 \/ resp'.request.messages # "text")
       => /\ resp'.status = 400
          /\ resp'.calls = <<>>
          /\ collection' = collection]_vars

====
